---- MODULE Spec2Model ----
(***************************************************************************)
(* envwrap: override a callable's parameter defaults with environment     *)
(* variables.  The model follows src/src/envwrap/__init__.py: the         *)
(* wrap-time closure built by envwrap(...)(func), the per-call pipeline   *)
(* of final_callable, and the process environment it scans.               *)
(*                                                                         *)
(* Text (environment keys and values, parameter names) is a sequence of   *)
(* one-character strings, so that prefix matching, lower-casing and the   *)
(* parsing done by int() and float() are computed, not assumed.           *)
(***************************************************************************)
EXTENDS Integers, Sequences, FiniteSets, TLC

VARIABLES
    environ,    \* os.environ: insertion-ordered sequence of <<key, value>>
    wrapped,    \* the closure captured by envwrap(...)(func) at wrap time
    scenario,   \* which decorated callable of Scenarios this behaviour runs
    last        \* the most recent call of the wrapped callable, as observed

vars == <<environ, wrapped, scenario, last>>

\* Largest number of variables the environment holds at once.
MaxEnv == 3

(***************************************************************************)
(* Python values.  One record shape for all of them: t is the runtime     *)
(* type, n/e carry numbers (a float is n / 10^e, normalised), s carries   *)
(* text (or, for a class object, its name).                               *)
(***************************************************************************)
PyStr(s) == [t |-> "str", n |-> 0, e |-> 0, s |-> s]
PyInt(n) == [t |-> "int", n |-> n, e |-> 0, s |-> <<>>]
PyBool(b) == [t |-> "bool", n |-> IF b THEN 1 ELSE 0, e |-> 0, s |-> <<>>]
PyNone == [t |-> "NoneType", n |-> 0, e |-> 0, s |-> <<>>]
PyClass(name) == [t |-> "type", n |-> 0, e |-> 0, s |-> <<name>>]
PyObject == [t |-> "object", n |-> 0, e |-> 0, s |-> <<>>]

RECURSIVE FloatNorm(_, _)
FloatNorm(n, e) ==
    IF e > 0 /\ n % 10 = 0 THEN FloatNorm(n \div 10, e - 1)
    ELSE [t |-> "float", n |-> n, e |-> e, s |-> <<>>]

PyFloat(n, e) == FloatNorm(n, e)

\* inspect.Parameter.empty is itself a class, so type(empty) is `type`.
Empty == PyClass("_empty")

\* type(value): the name of the runtime type.
TypeOf(value) == value.t

(***************************************************************************)
(* Text operations.                                                        *)
(***************************************************************************)
UpperChars == <<"A", "B", "C", "D", "E", "F", "G", "H", "I", "J", "K", "L", "M",
                "N", "O", "P", "Q", "R", "S", "T", "U", "V", "W", "X", "Y", "Z">>
LowerChars == <<"a", "b", "c", "d", "e", "f", "g", "h", "i", "j", "k", "l", "m",
                "n", "o", "p", "q", "r", "s", "t", "u", "v", "w", "x", "y", "z">>

LowerChar(c) ==
    IF \E i \in 1..Len(UpperChars) : UpperChars[i] = c
    THEN LowerChars[CHOOSE i \in 1..Len(UpperChars) : UpperChars[i] = c]
    ELSE c

UpperChar(c) ==
    IF \E i \in 1..Len(LowerChars) : LowerChars[i] = c
    THEN UpperChars[CHOOSE i \in 1..Len(LowerChars) : LowerChars[i] = c]
    ELSE c

\* str.lower() and str.upper()
lower(s) == [i \in 1..Len(s) |-> LowerChar(s[i])]
upper(s) == [i \in 1..Len(s) |-> UpperChar(s[i])]

\* str.startswith(prefix)
startswith(k, prefix) ==
    Len(k) >= Len(prefix) /\ SubSeq(k, 1, Len(prefix)) = prefix

\* k[len(prefix):]
strip_prefix(k, prefix) == SubSeq(k, Len(prefix) + 1, Len(k))

Digits == <<"0", "1", "2", "3", "4", "5", "6", "7", "8", "9">>
IsDigit(c) == \E i \in 1..10 : Digits[i] = c
DigitVal(c) == (CHOOSE i \in 1..10 : Digits[i] = c) - 1
IsDigits(s) == \A i \in 1..Len(s) : IsDigit(s[i])

RECURSIVE DigitsValue(_)
DigitsValue(s) ==
    IF s = <<>> THEN 0
    ELSE 10 * DigitsValue(SubSeq(s, 1, Len(s) - 1)) + DigitVal(s[Len(s)])

(***************************************************************************)
(* One-argument constructors applied to a raw environment string.  The    *)
(* text of the model is made of letters, digits, "_" and "."; signs,      *)
(* blanks, exponents and the words inf/nan do not occur in it.            *)
(***************************************************************************)
Ok(value) == [ok |-> TRUE, exc |-> "", val |-> value]
Raise(exc) == [ok |-> FALSE, exc |-> exc, val |-> PyNone]

\* int("42") = 42; int("3.14"), int("oops"), int("") raise ValueError
int(raw) ==
    IF Len(raw) > 0 /\ IsDigits(raw) THEN Ok(PyInt(DigitsValue(raw)))
    ELSE Raise("ValueError")

DotPositions(raw) == {i \in 1..Len(raw) : raw[i] = "."}

\* float("3.14") = 3.14; float("42") = 42.0; float("oops"), float("") raise
float(raw) ==
    IF DotPositions(raw) = {}
    THEN IF Len(raw) > 0 /\ IsDigits(raw) THEN Ok(PyFloat(DigitsValue(raw), 0))
         ELSE Raise("ValueError")
    ELSE IF Cardinality(DotPositions(raw)) = 1
    THEN LET d == CHOOSE i \in DotPositions(raw) : TRUE
             whole == SubSeq(raw, 1, d - 1)
             frac == SubSeq(raw, d + 1, Len(raw))
         IN  IF IsDigits(whole) /\ IsDigits(frac) /\ Len(whole) + Len(frac) > 0
             THEN Ok(PyFloat(DigitsValue(whole \o frac), Len(frac)))
             ELSE Raise("ValueError")
    ELSE Raise("ValueError")

\* bool(s) is the truthiness of the string: only "" is False. Never raises.
bool(raw) == Ok(PyBool(Len(raw) > 0))

\* str(s) of a str is that str.
str(raw) == Ok(PyStr(raw))

\* typ(raw) for the type named typ.  type(raw), with one argument, returns
\* the class of raw; NoneType(raw) raises TypeError.
Construct(typ, raw) ==
    CASE typ = "int" -> int(raw)
      [] typ = "float" -> float(raw)
      [] typ = "bool" -> bool(raw)
      [] typ = "str" -> str(raw)
      [] typ = "type" -> Ok(PyClass("str"))
      [] OTHER -> Raise("TypeError")

(***************************************************************************)
(* dict: insertion-ordered, a sequence of <<key, value>> with unique keys.*)
(***************************************************************************)
Keys(d) == {d[i][1] : i \in 1..Len(d)}
Has(d, k) == k \in Keys(d)
Get(d, k) == d[CHOOSE i \in 1..Len(d) : d[i][1] = k][2]

\* d[k] = v: an existing key keeps its position, a new one goes last.
SetItem(d, k, v) ==
    IF Has(d, k) THEN [i \in 1..Len(d) |-> IF d[i][1] = k THEN <<k, v>> ELSE d[i]]
    ELSE Append(d, <<k, v>>)

\* del d[k]
DelItem(d, k) == SelectSeq(d, LAMBDA kv : kv[1] # k)

\* {**d1, **d2}
RECURSIVE Update(_, _)
Update(d1, d2) ==
    IF d2 = <<>> THEN d1
    ELSE Update(SetItem(d1, d2[1][1], d2[1][2]), Tail(d2))

(***************************************************************************)
(* Text used by the scenarios: prefixes, environment keys, parameter names *)
(* and environment values.                                                *)
(***************************************************************************)
P_TEST == <<"T", "E", "S", "T", "_">>
P_FOO == <<"F", "O", "O", "_">>
K_TEST_A == <<"T", "E", "S", "T", "_", "A">>
K_TEST_B == <<"T", "E", "S", "T", "_", "B">>
K_TEST_C == <<"T", "E", "S", "T", "_", "C">>
K_TEST_X == <<"T", "E", "S", "T", "_", "X">>
K_TEST_Y == <<"T", "E", "S", "T", "_", "Y">>
K_TEST_SELF == <<"T", "E", "S", "T", "_", "S", "E", "L", "F">>
K_TEST_P == <<"T", "E", "S", "T", "_", "P">>
K_TEST_Q == <<"T", "E", "S", "T", "_", "Q">>
K_TEST_CLS == <<"T", "E", "S", "T", "_", "C", "L", "S">>
K_TEST_M == <<"T", "E", "S", "T", "_", "M">>
K_TEST_N == <<"T", "E", "S", "T", "_", "N">>
K_FOO_A == <<"F", "O", "O", "_", "A">>
K_FOO_a == <<"F", "O", "O", "_", "a">>
K_FOO_B == <<"F", "O", "O", "_", "B">>
K_FOO_C == <<"F", "O", "O", "_", "C">>
K_FOO_U == <<"F", "O", "O", "_", "U">>
K_FOO_V == <<"F", "O", "O", "_", "V">>
K_FOO_W == <<"F", "O", "O", "_", "W">>
K_FOO_X == <<"F", "O", "O", "_", "X">>
K_FOO_Y == <<"F", "O", "O", "_", "Y">>
K_FOO_SELF == <<"F", "O", "O", "_", "S", "E", "L", "F">>
K_FOO_Z == <<"F", "O", "O", "_", "Z">>
K_BAR_A == <<"B", "A", "R", "_", "A">>
K_foo_A == <<"f", "o", "o", "_", "A">>
N_a == <<"a">>
N_b == <<"b">>
N_c == <<"c">>
N_x == <<"x">>
N_y == <<"y">>
N_self == <<"s", "e", "l", "f">>
N_cls == <<"c", "l", "s">>
N_p == <<"p">>
N_q == <<"q">>
N_m == <<"m">>
N_n == <<"n">>
N_u == <<"u">>
N_v == <<"v">>
N_w == <<"w">>
S_42 == <<"4", "2">>
S_override == <<"o", "v", "e", "r", "r", "i", "d", "e">>
S_2_718 == <<"2", ".", "7", "1", "8">>
S_99 == <<"9", "9">>
S_default == <<"d", "e", "f", "a", "u", "l", "t">>
S_call_override == <<"c", "a", "l", "l", "_", "o", "v", "e", "r", "r", "i", "d", "e">>
S_3_14 == <<"3", ".", "1", "4">>
S_True == <<"T", "r", "u", "e">>
S_oops == <<"o", "o", "p", "s">>
S_7 == <<"7">>
S_8 == <<"8">>
S_2_5 == <<"2", ".", "5">>
S_88 == <<"8", "8">>
S_class_override == <<"c", "l", "a", "s", "s", "_", "o", "v", "e", "r", "r", "i", "d", "e">>
S_77 == <<"7", "7">>
S_static_override == <<"s", "t", "a", "t", "i", "c", "_", "o", "v", "e", "r", "r", "i", "d", "e">>
S_s == <<"s">>

(***************************************************************************)
(* Callables and their signatures.                                         *)
(* A parameter has a name, a default (Empty when it declares none) and an *)
(* annotation: none, a plain class, or a generic alias such as            *)
(* Union[int, float] whose __args__ are its members in declaration order. *)
(***************************************************************************)
NoAnnotation == [kind |-> "empty", cls |-> "", args |-> <<>>]
Annotated(cls) == [kind |-> "class", cls |-> cls, args |-> <<>>]
Generic(args) == [kind |-> "generic", cls |-> "", args |-> args]

Param(name, default, annotation) ==
    [name |-> name, default |-> default, annotation |-> annotation]

\* A function object: its declared parameters and the names its body
\* returns as a tuple.  bound = TRUE is a bound method object of it (the
\* object that has __func__), whose receiver is already supplied.
Function(params, ret) == [params |-> params, ret |-> ret, bound |-> FALSE]
BoundMethod(function) == [function EXCEPT !.bound = TRUE]

Names(params) == [i \in 1..Len(params) |-> params[i].name]
Range(seq) == {seq[i] : i \in 1..Len(seq)}
ParamNamed(params, k) == params[CHOOSE i \in 1..Len(params) : params[i].name = k]

\* inspect.signature(func).parameters: a bound method's signature leaves
\* out the receiver.
signature(func) ==
    IF func.bound /\ Len(func.params) > 0 THEN Tail(func.params) ELSE func.params

\* while hasattr(func, "__func__"): func = func.__func__
get_root_function(func) == IF func.bound THEN [func EXCEPT !.bound = FALSE] ELSE func

is_likely_method(func) ==
    LET params == signature(func)
    IN  IF params = <<>> THEN FALSE
        ELSE params[1].name \in {<<"s", "e", "l", "f">>, <<"c", "l", "s">>}

(***************************************************************************)
(* envwrap(prefix, types, is_method)(func): the wrap-time closure.        *)
(* is_method is "None", "True" or "False".                                *)
(***************************************************************************)
\* is_method or is_likely_method(root_function)
is_method_explicit(is_method, root_function) ==
    is_method = "True" \/ is_likely_method(root_function)

\* list(params.keys())[1:] if is_method_explicit else list(params.keys())
params_method_safe(params, method) ==
    IF method
    THEN IF params = <<>> THEN <<>> ELSE Tail(Names(params))
    ELSE Names(params)

wrapper(prefix, types, is_method, func) ==
    LET params == signature(func)
        root_function == get_root_function(func)
    IN  [prefix |-> prefix,
         types |-> types,
         is_method |-> is_method,
         func |-> func,
         params |-> params,
         params_method_safe |->
             params_method_safe(params, is_method_explicit(is_method, root_function))]

(***************************************************************************)
(* final_callable, called with args and kwargs: the per-call pipeline.   *)
(***************************************************************************)
RECURSIVE ScanEnviron(_, _, _)
ScanEnviron(prefix, env, acc) ==
    IF env = <<>> THEN acc
    ELSE LET k == env[1][1]
             v == env[1][2]
         IN  IF startswith(k, prefix)
             THEN ScanEnviron(prefix, Tail(env),
                              SetItem(acc, lower(strip_prefix(k, prefix)), v))
             ELSE ScanEnviron(prefix, Tail(env), acc)

\* A scan answered from the previous call's environment instead of the
\* current one.
env_overrides_cached(prefix, env) ==
    IF last.called THEN ScanEnviron(prefix, last.environ, <<>>)
    ELSE ScanEnviron(prefix, env, <<>>)

\* {k[len(prefix):].lower(): v for k, v in os.environ.items()
\*                             if k.startswith(prefix)}
env_overrides(prefix, env) == ScanEnviron(prefix, env, <<>>)

\* The filter taken over every declared parameter, the receiver included.
overrides_all_params(env_ov, safe) ==
    SelectSeq(env_ov, LAMBDA kv : kv[1] \in Range(Names(wrapped.params)))

\* {k: v for k, v in env_overrides.items() if k in params_method_safe}
overrides(env_ov, safe) == SelectSeq(env_ov, LAMBDA kv : kv[1] \in Range(safe))

\* getattr(param.annotation, "__args__", (param.annotation,))
candidate_types(annotation) ==
    IF annotation.kind = "generic" THEN annotation.args ELSE <<annotation.cls>>

\* The loop without its try/except: the first candidate alone is applied
\* and its failure ends the call.
convert_annotation_unforgiving(types, raw) ==
    IF types = <<>> THEN Ok(PyStr(raw)) ELSE Construct(types[1], raw)

\* for typ in candidates: try: overrides[k] = typ(overrides[k])
\*                        except Exception: pass
\*                        else: break
RECURSIVE convert_annotation(_, _)
convert_annotation(types, raw) ==
    IF types = <<>> THEN Ok(PyStr(raw))
    ELSE IF Construct(types[1], raw).ok THEN Construct(types[1], raw)
    ELSE convert_annotation(Tail(types), raw)

\* The default-type conversion with the annotation branch's try/except.
convert_default_forgiving(default, raw) ==
    IF Construct(TypeOf(default), raw).ok THEN Construct(TypeOf(default), raw)
    ELSE Ok(PyStr(raw))

\* overrides[k] = type(param.default)(overrides[k]); nothing is caught
convert_default(default, raw) == Construct(TypeOf(default), raw)

\* try: overrides[k] = types[k](overrides[k])
\* except KeyError: pass
convert_types(types, k, raw) ==
    IF Has(types, k) THEN Construct(Get(types, k), raw) ELSE Ok(PyStr(raw))

\* The body of `for k in overrides` for one key.
convert(param, types, k, raw) ==
    IF param.annotation.kind # "empty"
    THEN convert_annotation(candidate_types(param.annotation), raw)
    ELSE IF param.default # PyNone
    THEN convert_default(param.default, raw)
    ELSE convert_types(types, k, raw)

\* for k in overrides: ...  The first conversion that raises ends the call.
RECURSIVE convert_overrides(_, _, _, _)
convert_overrides(params, types, todo, done) ==
    IF todo = <<>> THEN Ok(done)
    ELSE LET k == todo[1][1]
             r == convert(ParamNamed(params, k), types, k, todo[1][2])
         IN  IF r.ok
             THEN convert_overrides(params, types, Tail(todo), Append(done, <<k, r.val>>))
             ELSE Raise(r.exc)

\* No declared default is sent as a keyword.
default_kwargs_none(params) == <<>>

\* {k: v.default for k, v in params.items() if v.default is not v.empty}
default_kwargs(params) ==
    LET withDefault == SelectSeq(params, LAMBDA p : p.default # Empty)
    IN  [i \in 1..Len(withDefault) |-> <<withDefault[i].name, withDefault[i].default>>]

\* The environment layered over the call site.
final_kwargs_env_wins(defaults, ov, kwargs) == Update(Update(defaults, kwargs), ov)

\* Call-site keywords make the call ignore the environment.
final_kwargs_call_hides_env(defaults, ov, kwargs) ==
    IF kwargs = <<>> THEN Update(defaults, ov) ELSE Update(defaults, kwargs)

\* {**default_kwargs, **overrides, **kwargs}
final_kwargs(defaults, ov, kwargs) == Update(Update(defaults, ov), kwargs)

(***************************************************************************)
(* What a call ends in.  received is what the underlying function's       *)
(* parameters were bound to, result the tuple its body returns.           *)
(***************************************************************************)
Returned(received, result) ==
    [status |-> "returned", exc |-> "", where |-> "",
     received |-> received, result |-> result]

\* where = "convert": raised before func was called;
\* where = "bind": raised by func's own parameter binding.
Raised(exc, where) ==
    [status |-> "raised", exc |-> exc, where |-> where,
     received |-> <<>>, result |-> <<>>]

IndexOf(params, k) == CHOOSE i \in 1..Len(params) : params[i].name = k

\* func called with args and final_kwargs: Python's parameter binding, then the body.
call_func(func, args, kw) ==
    LET params == func.params
        pos == IF func.bound THEN <<PyObject>> \o args ELSE args
    IN  IF Len(pos) > Len(params) THEN Raised("TypeError", "bind")
        ELSE IF \E k \in Keys(kw) : k \notin Range(Names(params))
        THEN Raised("TypeError", "bind")
        ELSE IF \E i \in 1..Len(pos) : Has(kw, params[i].name)
        THEN Raised("TypeError", "bind")
        ELSE IF \E i \in (Len(pos) + 1)..Len(params) :
                    ~Has(kw, params[i].name) /\ params[i].default = Empty
        THEN Raised("TypeError", "bind")
        ELSE LET received ==
                     [i \in 1..Len(params) |->
                         IF i <= Len(pos) THEN pos[i]
                         ELSE IF Has(kw, params[i].name) THEN Get(kw, params[i].name)
                         ELSE params[i].default]
             IN  Returned(received,
                          [j \in 1..Len(func.ret) |-> received[IndexOf(params, func.ret[j])]])

final_callable(closure, env, args, kwargs) ==
    LET converted ==
            convert_overrides(closure.params, closure.types,
                overrides(env_overrides(closure.prefix, env), closure.params_method_safe),
                <<>>)
    IN  IF ~converted.ok THEN Raised(converted.exc, "convert")
        ELSE call_func(closure.func, args,
                       final_kwargs(default_kwargs(closure.params), converted.val, kwargs))

(***************************************************************************)
(* Decorated callables and the inputs tried on them.  The first five are  *)
(* the ones of src/tests/test_main.py; the others exercise the branches   *)
(* the tests leave out.  env is the set of <<key, value>> assignments     *)
(* made to os.environ, calls the set of <<args, kwargs>> the wrapped      *)
(* callable is called with.                                               *)
(***************************************************************************)
NoArgs == <<>>
NoKwargs == <<>>

\* def test_func(a: int = 1, b: str = "default", c: float = 3.14)
test_standalone_function ==
    [prefix |-> P_TEST, types |-> <<>>, is_method |-> "None",
     func |-> Function(<<Param(N_a, PyInt(1), Annotated("int")),
                         Param(N_b, PyStr(S_default), Annotated("str")),
                         Param(N_c, PyFloat(314, 2), Annotated("float"))>>,
                       <<N_a, N_b, N_c>>),
     env |-> {<<K_TEST_A, S_42>>, <<K_TEST_B, S_override>>, <<K_TEST_C, S_2_718>>},
     calls |-> {<<NoArgs, NoKwargs>>,
                <<NoArgs, <<<<N_a, PyInt(10)>>, <<N_c, PyFloat(123, 2)>>>>>>}]

\* def test_method(self, x: int = 1, y: str = "default"), called as obj.m(...)
test_instance_method ==
    [prefix |-> P_TEST, types |-> <<>>, is_method |-> "None",
     func |-> Function(<<Param(N_self, Empty, NoAnnotation),
                         Param(N_x, PyInt(1), Annotated("int")),
                         Param(N_y, PyStr(S_default), Annotated("str"))>>,
                       <<N_x, N_y>>),
     env |-> {<<K_TEST_X, S_99>>, <<K_TEST_Y, S_override>>, <<K_TEST_SELF, S_7>>},
     calls |-> {<<<<PyObject>>, NoKwargs>>,
                <<<<PyObject>>, <<<<N_y, PyStr(S_call_override)>>>>>>}]

\* @classmethod over @envwrap: def test_class_method(cls, p: int = 1, q: str = "default")
test_class_method ==
    [prefix |-> P_TEST, types |-> <<>>, is_method |-> "None",
     func |-> Function(<<Param(N_cls, Empty, NoAnnotation),
                         Param(N_p, PyInt(1), Annotated("int")),
                         Param(N_q, PyStr(S_default), Annotated("str"))>>,
                       <<N_p, N_q>>),
     env |-> {<<K_TEST_P, S_88>>, <<K_TEST_Q, S_class_override>>, <<K_TEST_CLS, S_7>>},
     calls |-> {<<<<PyObject>>, NoKwargs>>}]

\* @staticmethod over @envwrap: def test_static_method(m: int = 1, n: str = "default")
test_static_method ==
    [prefix |-> P_TEST, types |-> <<>>, is_method |-> "None",
     func |-> Function(<<Param(N_m, PyInt(1), Annotated("int")),
                         Param(N_n, PyStr(S_default), Annotated("str"))>>,
                       <<N_m, N_n>>),
     env |-> {<<K_TEST_M, S_77>>, <<K_TEST_N, S_static_override>>},
     calls |-> {<<NoArgs, NoKwargs>>}]

\* def test_func(a: int = 1, b: float = 2.0, c: bool = False)
test_type_conversion ==
    [prefix |-> P_TEST, types |-> <<>>, is_method |-> "None",
     func |-> Function(<<Param(N_a, PyInt(1), Annotated("int")),
                         Param(N_b, PyFloat(2, 0), Annotated("float")),
                         Param(N_c, PyBool(FALSE), Annotated("bool"))>>,
                       <<N_a, N_b, N_c>>),
     env |-> {<<K_TEST_A, S_42>>, <<K_TEST_B, S_3_14>>, <<K_TEST_C, S_True>>},
     calls |-> {<<NoArgs, NoKwargs>>}]

\* def f(u: Union[int, float] = 0, v: Optional[int] = None, w: Union[float, int] = 0)
union_function ==
    [prefix |-> P_FOO, types |-> <<>>, is_method |-> "None",
     func |-> Function(<<Param(N_u, PyInt(0), Generic(<<"int", "float">>)),
                         Param(N_v, PyNone, Generic(<<"int", "NoneType">>)),
                         Param(N_w, PyInt(0), Generic(<<"float", "int">>))>>,
                       <<N_u, N_v, N_w>>),
     env |-> {<<K_FOO_U, S_7>>, <<K_FOO_U, S_2_5>>, <<K_FOO_V, S_oops>>, <<K_FOO_W, S_7>>},
     calls |-> {<<NoArgs, NoKwargs>>}]

\* def f(a=1, b="s", c=None), no types mapping
untyped_function ==
    [prefix |-> P_FOO, types |-> <<>>, is_method |-> "None",
     func |-> Function(<<Param(N_a, PyInt(1), NoAnnotation),
                         Param(N_b, PyStr(S_s), NoAnnotation),
                         Param(N_c, PyNone, NoAnnotation)>>,
                       <<N_a, N_b, N_c>>),
     env |-> {<<K_FOO_A, S_7>>, <<K_FOO_A, S_oops>>, <<K_FOO_a, S_8>>, <<K_FOO_C, S_7>>},
     calls |-> {<<NoArgs, NoKwargs>>, <<NoArgs, <<<<N_a, PyInt(10)>>>>>>,
                <<<<PyInt(5)>>, NoKwargs>>}]

\* def f(a=1, b="s", c=None) with types={"c": int}
typed_fallback_function ==
    [prefix |-> P_FOO, types |-> <<<<N_c, "int">>>>, is_method |-> "None",
     func |-> Function(<<Param(N_a, PyInt(1), NoAnnotation),
                         Param(N_b, PyStr(S_s), NoAnnotation),
                         Param(N_c, PyNone, NoAnnotation)>>,
                       <<N_a, N_b, N_c>>),
     env |-> {<<K_FOO_B, S_override>>, <<K_FOO_B, S_7>>,
              <<K_FOO_C, S_7>>, <<K_FOO_C, S_oops>>},
     calls |-> {<<NoArgs, NoKwargs>>, <<NoArgs, <<<<N_c, PyInt(10)>>>>>>}]

\* def f(a, c, b=2) with types={"a": int}: a and c declare no default
required_function ==
    [prefix |-> P_FOO, types |-> <<<<N_a, "int">>>>, is_method |-> "None",
     func |-> Function(<<Param(N_a, Empty, NoAnnotation),
                         Param(N_c, Empty, NoAnnotation),
                         Param(N_b, PyInt(2), NoAnnotation)>>,
                       <<N_a, N_c, N_b>>),
     env |-> {<<K_FOO_A, S_42>>, <<K_FOO_C, S_7>>, <<K_FOO_B, S_7>>},
     calls |-> {<<NoArgs, NoKwargs>>,
                <<<<PyInt(5), PyInt(6)>>, NoKwargs>>,
                <<<<PyInt(5), PyInt(6), PyInt(8)>>, NoKwargs>>,
                <<<<PyInt(5)>>, <<<<N_a, PyInt(6)>>, <<N_c, PyInt(6)>>>>>>}]

\* envwrap("FOO_")(obj.m) for def m(self, x=1, y=2): the target is a bound method
bound_method ==
    [prefix |-> P_FOO, types |-> <<>>, is_method |-> "None",
     func |-> BoundMethod(Function(<<Param(N_self, Empty, NoAnnotation),
                                     Param(N_x, PyInt(1), NoAnnotation),
                                     Param(N_y, PyInt(2), NoAnnotation)>>,
                                   <<N_x, N_y>>)),
     env |-> {<<K_FOO_X, S_99>>, <<K_FOO_Y, S_77>>, <<K_FOO_SELF, S_7>>},
     calls |-> {<<NoArgs, NoKwargs>>, <<NoArgs, <<<<N_y, PyInt(10)>>>>>>}]

\* envwrap("FOO_", is_method=False) on def f(self=0, x=1)
is_method_false ==
    [prefix |-> P_FOO, types |-> <<>>, is_method |-> "False",
     func |-> Function(<<Param(N_self, PyInt(0), NoAnnotation),
                         Param(N_x, PyInt(1), NoAnnotation)>>,
                       <<N_self, N_x>>),
     env |-> {<<K_FOO_SELF, S_7>>, <<K_FOO_X, S_99>>},
     calls |-> {<<NoArgs, NoKwargs>>}]

\* envwrap("FOO_", is_method=True) on def f(a=1, b=2)
is_method_true ==
    [prefix |-> P_FOO, types |-> <<>>, is_method |-> "True",
     func |-> Function(<<Param(N_a, PyInt(1), NoAnnotation),
                         Param(N_b, PyInt(2), NoAnnotation)>>,
                       <<N_a, N_b>>),
     env |-> {<<K_FOO_A, S_7>>, <<K_FOO_B, S_99>>},
     calls |-> {<<NoArgs, NoKwargs>>, <<<<PyInt(5)>>, NoKwargs>>}]

\* def f(a=1, b="s") with variables that match no parameter, or not the prefix
shared_prefix_function ==
    [prefix |-> P_FOO, types |-> <<>>, is_method |-> "None",
     func |-> Function(<<Param(N_a, PyInt(1), NoAnnotation),
                         Param(N_b, PyStr(S_s), NoAnnotation)>>,
                       <<N_a, N_b>>),
     env |-> {<<K_FOO_A, S_7>>, <<K_FOO_Z, S_8>>, <<K_BAR_A, S_8>>, <<K_foo_A, S_8>>},
     calls |-> {<<NoArgs, NoKwargs>>}]

ScenarioNames ==
    {"test_standalone_function", "test_instance_method", "test_class_method",
     "test_static_method", "test_type_conversion", "union_function",
     "untyped_function", "typed_fallback_function", "required_function",
     "bound_method", "is_method_false", "is_method_true", "shared_prefix_function"}

Scenario(name) ==
    CASE name = "test_standalone_function" -> test_standalone_function
      [] name = "test_instance_method" -> test_instance_method
      [] name = "test_class_method" -> test_class_method
      [] name = "test_static_method" -> test_static_method
      [] name = "test_type_conversion" -> test_type_conversion
      [] name = "union_function" -> union_function
      [] name = "untyped_function" -> untyped_function
      [] name = "typed_fallback_function" -> typed_fallback_function
      [] name = "required_function" -> required_function
      [] name = "bound_method" -> bound_method
      [] name = "is_method_false" -> is_method_false
      [] name = "is_method_true" -> is_method_true
      [] name = "shared_prefix_function" -> shared_prefix_function

(***************************************************************************)
(* The state machine.                                                      *)
(***************************************************************************)
\* The variables of env, by index, that the scan maps to parameter name p.
MatchingVars(env, p) ==
    {i \in 1..Len(env) :
        /\ startswith(env[i][1], wrapped.prefix)
        /\ lower(strip_prefix(env[i][1], wrapped.prefix)) = p}

\* The eligible parameter names some variable of env maps to.
EnvNames(env) ==
    {p \in Range(wrapped.params_method_safe) : MatchingVars(env, p) # {}}

\* previous: the parameter names the call before this one found in the
\* environment (empty when there was none).
NoCall ==
    [called |-> FALSE, environ |-> <<>>, args |-> <<>>, kwargs |-> <<>>,
     outcome |-> Raised("", ""), previous |-> {}]

\* The decorator has run; nothing is set under the tried keys; no call yet.
Init ==
    /\ scenario \in ScenarioNames
    /\ wrapped = wrapper(Scenario(scenario).prefix, Scenario(scenario).types,
                         Scenario(scenario).is_method, Scenario(scenario).func)
    /\ environ = <<>>
    /\ last = NoCall

\* os.environ[k] = v
SetEnv(k, v) ==
    /\ Has(environ, k) \/ Len(environ) < MaxEnv
    /\ environ' = SetItem(environ, k, v)
    /\ UNCHANGED <<wrapped, scenario, last>>

\* del os.environ[k]
DelEnv(k) ==
    /\ Has(environ, k)
    /\ environ' = DelItem(environ, k)
    /\ UNCHANGED <<wrapped, scenario, last>>

\* the wrapped callable called with args and kwargs
Call(args, kwargs) ==
    /\ last' = [called |-> TRUE, environ |-> environ, args |-> args, kwargs |-> kwargs,
                outcome |-> final_callable(wrapped, environ, args, kwargs),
                previous |-> IF last.called THEN EnvNames(last.environ) ELSE {}]
    /\ UNCHANGED <<environ, wrapped, scenario>>

Next ==
    \/ \E kv \in Scenario(scenario).env : SetEnv(kv[1], kv[2])
    \/ \E kv \in Scenario(scenario).env : DelEnv(kv[1])
    \/ \E c \in Scenario(scenario).calls : Call(c[1], c[2])

Spec == Init /\ [][Next]_vars

(***************************************************************************)
(* Vocabulary of the properties: what the last call was given, and what   *)
(* the underlying callable received in it.                                *)
(***************************************************************************)
Called == last.called
DidReturn == last.called /\ last.outcome.status = "returned"

Eligible == Range(wrapped.params_method_safe)
DefaultOf(p) == ParamNamed(wrapped.params, p).default
HasDefault(p) == DefaultOf(p) # Empty
Unannotated(p) == ParamNamed(wrapped.params, p).annotation.kind = "empty"

\* What the underlying function's parameter p was bound to.
Received(p) == last.outcome.received[IndexOf(wrapped.func.params, p)]

ByKeyword(p) == Has(last.kwargs, p)

\* The parameters the call's positional arguments are bound to.
ByPosition ==
    {wrapped.params[i].name :
        i \in {j \in 1..Len(wrapped.params) : j <= Len(last.args)}}

LastIndex(S) == CHOOSE i \in S : \A j \in S : j <= i

\* The raw value the scan ends with for p: that of the last variable, in
\* the environment's iteration order, whose name is the prefix followed by
\* any-case spelling of p.
RawFor(env, p) == env[LastIndex(MatchingVars(env, p))][2]

\* The variable named exactly prefix + UPPER(p).
ExactKey(p) == wrapped.prefix \o upper(p)

ConvertedFor(p, raw) == convert(ParamNamed(wrapped.params, p), wrapped.types, p, raw)

\* Some matched eligible variable of env does not convert.
ConversionRaises(env) ==
    \E p \in EnvNames(env) : ~ConvertedFor(p, RawFor(env, p)).ok

Holds(env, k, v) == Has(env, k) /\ Get(env, k) = v
Remove(env, i) == SubSeq(env, 1, i - 1) \o SubSeq(env, i + 1, Len(env))

(***************************************************************************)
(* C1                                                                      *)
(***************************************************************************)
\* C1 as stated: for every eligible parameter p with a declared default d,
\* the underlying callable receives the call-site keyword value when p is
\* given by keyword; otherwise the converted value of the environment
\* variable named prefix + UPPER(p) when that variable is set; otherwise d.
C1_PrecedenceExactKey ==
    DidReturn =>
        \A p \in Eligible :
            HasDefault(p) =>
                Received(p) =
                    IF ByKeyword(p) THEN Get(last.kwargs, p)
                    ELSE IF Has(last.environ, ExactKey(p))
                    THEN ConvertedFor(p, Get(last.environ, ExactKey(p))).val
                    ELSE DefaultOf(p)

\* C1 amended: the environment layer for p is the last variable, in the
\* environment's iteration order, whose name starts with the prefix and whose
\* remainder lower-cases to p (FOO_A and FOO_a both map to a); the precedence
\* call-site keyword > environment > declared default holds per parameter.
C1_Precedence ==
    DidReturn =>
        \A p \in Eligible :
            HasDefault(p) =>
                Received(p) =
                    IF ByKeyword(p) THEN Get(last.kwargs, p)
                    ELSE IF MatchingVars(last.environ, p) # {}
                    THEN ConvertedFor(p, RawFor(last.environ, p)).val
                    ELSE DefaultOf(p)

\* One call mixing the three sources: a parameter given by keyword although
\* its variable is set, one taken from the environment, one left to its default.
C1_Witness ==
    /\ DidReturn
    /\ \E p, q, r \in Eligible :
        /\ HasDefault(p) /\ ByKeyword(p) /\ MatchingVars(last.environ, p) # {}
        /\ Received(p) = Get(last.kwargs, p)
        /\ HasDefault(q) /\ ~ByKeyword(q) /\ MatchingVars(last.environ, q) # {}
        /\ Received(q) # DefaultOf(q)
        /\ HasDefault(r) /\ ~ByKeyword(r) /\ MatchingVars(last.environ, r) = {}
        /\ Received(r) = DefaultOf(r)

(***************************************************************************)
(* C2                                                                      *)
(***************************************************************************)
\* What a call that returned shows of the environment it ran in: a parameter
\* not given at the call site carries its variable's converted value when one
\* is set, and its declared default when none is.
ObservesEnvironment(call) ==
    call.outcome.status = "returned" =>
        \A p \in Eligible :
            (HasDefault(p) /\ ~Has(call.kwargs, p)) =>
                call.outcome.received[IndexOf(wrapped.func.params, p)] =
                    IF MatchingVars(call.environ, p) # {}
                    THEN ConvertedFor(p, RawFor(call.environ, p)).val
                    ELSE DefaultOf(p)

C2_Step ==
    last'.called =>
        /\ ObservesEnvironment(last')
        /\ (/\ last.called
            /\ last'.environ = last.environ
            /\ last'.args = last.args
            /\ last'.kwargs = last.kwargs) => last'.outcome = last.outcome

\* C2: no cross-call caching. Along every interleaving of environment
\* assignments, deletions and calls, each call reflects the environment as it
\* is when the call is made (a variable set before it is observed, a variable
\* removed before it gives the default back), and a call made with the same
\* environment and arguments as the call before it has the same outcome.
C2_NoCaching == [][C2_Step]_vars

\* A call that follows another one after the environment changed: a variable
\* the earlier call saw is gone and the default is back, and a variable the
\* earlier call did not see is observed.
C2_Witness ==
    /\ DidReturn
    /\ \E p \in last.previous :
        /\ MatchingVars(last.environ, p) = {}
        /\ HasDefault(p) /\ ~ByKeyword(p) /\ Received(p) = DefaultOf(p)
    /\ \E q \in Eligible \ last.previous :
        /\ MatchingVars(last.environ, q) # {}
        /\ ~ByKeyword(q) /\ Received(q) = ConvertedFor(q, RawFor(last.environ, q)).val
        /\ Received(q) # DefaultOf(q)

(***************************************************************************)
(* C3                                                                      *)
(***************************************************************************)
FirstParam == wrapped.params[1].name

\* C3: an explicit is_method overrides the self/cls heuristic. With
\* is_method=False the first parameter is overridable from the environment
\* even when it is named self or cls; with is_method=True the first parameter
\* is never overridden, whatever its name.
C3_ExplicitIsMethod ==
    (DidReturn /\ wrapped.params # <<>> /\ ByPosition = {} /\ ~ByKeyword(FirstParam)) =>
        /\ (wrapped.is_method = "False" /\ MatchingVars(last.environ, FirstParam) # {}) =>
               Received(FirstParam) =
                   ConvertedFor(FirstParam, RawFor(last.environ, FirstParam)).val
        /\ wrapped.is_method = "True" => Received(FirstParam) = DefaultOf(FirstParam)

(***************************************************************************)
(* C4                                                                      *)
(***************************************************************************)
\* C4: for an eligible parameter without annotation whose default is None or
\* that declares no default, a matching environment value is converted with
\* types[name] when name is in the types mapping and is otherwise passed as
\* the raw string.
C4_CallerSuppliedFallback ==
    DidReturn =>
        \A p \in Eligible :
            (/\ Unannotated(p)
             /\ DefaultOf(p) \in {PyNone, Empty}
             /\ ~ByKeyword(p) /\ p \notin ByPosition
             /\ MatchingVars(last.environ, p) # {}) =>
                Received(p) =
                    IF Has(wrapped.types, p)
                    THEN Construct(Get(wrapped.types, p), RawFor(last.environ, p)).val
                    ELSE PyStr(RawFor(last.environ, p))

(***************************************************************************)
(* C5                                                                      *)
(***************************************************************************)
\* The target's declared parameters without its implicit receiver: a bound
\* method has its receiver supplied already; a function written with a first
\* parameter self or cls takes its receiver there.
NonReceiverParams ==
    IF wrapped.func.bound THEN Range(Names(Tail(wrapped.func.params)))
    ELSE IF is_likely_method(wrapped.func) THEN Range(Tail(Names(wrapped.func.params)))
    ELSE Range(Names(wrapped.func.params))

\* C5: whatever the kind of target (is_method left unset), the parameters the
\* environment can override are exactly the declared ones minus the receiver:
\* every non-receiver parameter with a matching variable receives it, and the
\* receiver never does.
C5_EligibleSet ==
    (DidReturn /\ wrapped.is_method = "None") =>
        /\ \A p \in NonReceiverParams :
            (~ByKeyword(p) /\ p \notin ByPosition /\ MatchingVars(last.environ, p) # {}) =>
                Received(p) = ConvertedFor(p, RawFor(last.environ, p)).val
        /\ \A p \in Range(Names(wrapped.func.params)) \ NonReceiverParams :
            Received(p) = PyObject

(***************************************************************************)
(* C6                                                                      *)
(***************************************************************************)
StandaloneEnvSet ==
    /\ wrapped.func = test_standalone_function.func
    /\ wrapped.prefix = P_TEST
    /\ Called
    /\ Holds(last.environ, K_TEST_A, S_42)
    /\ Holds(last.environ, K_TEST_B, S_override)
    /\ Holds(last.environ, K_TEST_C, S_2_718)
    /\ last.args = NoArgs
    /\ last.kwargs = <<<<N_a, PyInt(10)>>, <<N_c, PyFloat(123, 2)>>>>

InstanceEnvSet ==
    /\ wrapped.func = test_instance_method.func
    /\ wrapped.prefix = P_TEST
    /\ Called
    /\ Holds(last.environ, K_TEST_X, S_99)
    /\ Holds(last.environ, K_TEST_Y, S_override)
    /\ last.args = <<PyObject>>
    /\ last.kwargs = <<<<N_y, PyStr(S_call_override)>>>>

\* C6 as stated: with TEST_A="42", TEST_B="override", TEST_C="2.718" still
\* set, f(a=10, c=1.23) returns (10, "default", 1.23); with TEST_X="99",
\* TEST_Y="override" still set, obj.m(y="call_override") returns
\* (1, "call_override").
C6_EnvStillSetGivesDefaults ==
    /\ StandaloneEnvSet =>
           /\ last.outcome.status = "returned"
           /\ last.outcome.result = <<PyInt(10), PyStr(S_default), PyFloat(123, 2)>>
    /\ InstanceEnvSet =>
           /\ last.outcome.status = "returned"
           /\ last.outcome.result = <<PyInt(1), PyStr(S_call_override)>>

\* C6 amended: with the variables still set, the parameters not given at the
\* call site take their environment values: f(a=10, c=1.23) returns
\* (10, "override", 1.23) and obj.m(y="call_override") returns
\* (99, "call_override").
C6_EnvStillSet ==
    /\ StandaloneEnvSet =>
           /\ last.outcome.status = "returned"
           /\ last.outcome.result = <<PyInt(10), PyStr(S_override), PyFloat(123, 2)>>
    /\ InstanceEnvSet =>
           /\ last.outcome.status = "returned"
           /\ last.outcome.result = <<PyInt(99), PyStr(S_call_override)>>

C6_Witness == StandaloneEnvSet /\ last.outcome.status = "returned"

(***************************************************************************)
(* C7                                                                      *)
(***************************************************************************)
\* A variable that does not start with the prefix, or whose stripped and
\* lower-cased name is not an eligible parameter.
Unmatched(k) ==
    \/ ~startswith(k, wrapped.prefix)
    \/ lower(strip_prefix(k, wrapped.prefix)) \notin Eligible

\* C7: an unmatched environment variable has no effect: the call made with it
\* in the environment ends exactly as the same call without it (same bound
\* arguments, same result, same error if any).
C7_UnmatchedNoEffect ==
    Called =>
        \A i \in 1..Len(last.environ) :
            Unmatched(last.environ[i][1]) =>
                last.outcome =
                    final_callable(wrapped, Remove(last.environ, i), last.args, last.kwargs)

\* A call that returned with an override in effect while the environment also
\* held a prefixed variable naming no eligible parameter and a variable
\* without the prefix.
C7_Witness ==
    /\ DidReturn
    /\ \E i, j \in 1..Len(last.environ) :
        /\ Unmatched(last.environ[i][1]) /\ startswith(last.environ[i][1], wrapped.prefix)
        /\ ~startswith(last.environ[j][1], wrapped.prefix)
    /\ \E p \in EnvNames(last.environ) : Received(p) # DefaultOf(p)

(***************************************************************************)
(* C8                                                                      *)
(***************************************************************************)
Candidates(p) == candidate_types(ParamNamed(wrapped.params, p).annotation)

\* The candidates of p, by index, that convert raw without raising.
Succeeding(p, raw) ==
    {i \in 1..Len(Candidates(p)) : Construct(Candidates(p)[i], raw).ok}

FirstIndex(S) == CHOOSE i \in S : \A j \in S : i <= j

FirstSuccess(p, raw) ==
    IF Succeeding(p, raw) = {} THEN PyStr(raw)
    ELSE Construct(Candidates(p)[FirstIndex(Succeeding(p, raw))], raw).val

TypeConversionEnvSet ==
    /\ wrapped.func = test_type_conversion.func
    /\ Called
    /\ Holds(last.environ, K_TEST_A, S_42)
    /\ Holds(last.environ, K_TEST_B, S_3_14)
    /\ Holds(last.environ, K_TEST_C, S_True)
    /\ last.kwargs = NoKwargs

\* C8: annotation-driven conversion is first-success-wins and forgiving. An
\* annotated eligible parameter taken from the environment receives the result
\* of the first candidate type, in declaration order, that accepts the raw
\* string, and the raw string itself when none does; when every matched
\* variable belongs to an annotated parameter the conversion step never ends
\* the call. int with "42" gives 42, float with "3.14" gives 3.14, bool with
\* "True" gives True.
C8_AnnotationFirstSuccess ==
    Called =>
        /\ (\A p \in EnvNames(last.environ) : ~Unannotated(p)) =>
               last.outcome.where # "convert"
        /\ DidReturn =>
               \A p \in EnvNames(last.environ) :
                   (~Unannotated(p) /\ ~ByKeyword(p)) =>
                       Received(p) = FirstSuccess(p, RawFor(last.environ, p))
        /\ TypeConversionEnvSet =>
               last.outcome.result = <<PyInt(42), PyFloat(314, 2), PyBool(TRUE)>>

\* A call in which one annotated parameter got the value of its second
\* candidate, the first having refused the string, and another one kept the
\* raw string because every candidate refused it.
C8_Witness ==
    /\ DidReturn
    /\ \E p, q \in EnvNames(last.environ) :
        /\ ~Unannotated(p) /\ ~ByKeyword(p)
        /\ 1 \notin Succeeding(p, RawFor(last.environ, p))
        /\ 2 \in Succeeding(p, RawFor(last.environ, p))
        /\ Received(p) = Construct(Candidates(p)[2], RawFor(last.environ, p)).val
        /\ ~Unannotated(q) /\ ~ByKeyword(q)
        /\ Succeeding(q, RawFor(last.environ, q)) = {}
        /\ Received(q) = PyStr(RawFor(last.environ, q))

(***************************************************************************)
(* C9                                                                      *)
(***************************************************************************)
\* Eligible, unannotated, with a declared default other than None.
DefaultTyped(p) ==
    /\ p \in Eligible
    /\ Unannotated(p)
    /\ DefaultOf(p) # PyNone
    /\ HasDefault(p)

\* C9: default-type-driven conversion is not forgiving. For an eligible
\* parameter with no annotation and a non-None default, a matching variable is
\* converted with the type of the default; when that constructor raises, the
\* call of the wrapped callable raises that error before the underlying
\* callable is called, whatever the call site supplies.
C9_DefaultTypeFatal ==
    Called =>
        \A p \in EnvNames(last.environ) :
            DefaultTyped(p) =>
                LET r == Construct(TypeOf(DefaultOf(p)), RawFor(last.environ, p))
                IN  /\ ~r.ok => last.outcome = Raised(r.exc, "convert")
                    /\ (r.ok /\ DidReturn /\ ~ByKeyword(p)) => Received(p) = r.val

\* A call that raised the constructor's error although the call site gave
\* the parameter by keyword.
C9_Witness ==
    /\ Called
    /\ \E p \in EnvNames(last.environ) :
        /\ DefaultTyped(p)
        /\ ByKeyword(p)
        /\ ~Construct(TypeOf(DefaultOf(p)), RawFor(last.environ, p)).ok
    /\ last.outcome = Raised("ValueError", "convert")

(***************************************************************************)
(* C10                                                                     *)
(***************************************************************************)
\* A call that returned took positional arguments only for parameters with no
\* default, no override from the environment and no call-site keyword.
PositionalOnlyWhereFree ==
    DidReturn =>
        \A p \in ByPosition :
            ~HasDefault(p) /\ p \notin EnvNames(last.environ) /\ ~ByKeyword(p)

\* C10 as stated: a positional argument for a parameter with a declared
\* default ends in the underlying callable's binding error in every
\* environment; a positional argument is accepted only for parameters with no
\* default, no environment override and no call-site keyword.
C10_PositionalBindingError ==
    Called =>
        /\ (\E p \in ByPosition : HasDefault(p)) =>
               last.outcome = Raised("TypeError", "bind")
        /\ PositionalOnlyWhereFree

\* C10 amended: such a call never reaches the underlying callable's body: it
\* ends in the binding error, unless a conversion of a matched variable
\* raises first, in which case it ends in that conversion error.
C10_PositionalRejected ==
    Called =>
        /\ (\E p \in ByPosition : HasDefault(p)) =>
               last.outcome =
                   IF ConversionRaises(last.environ) THEN Raised("ValueError", "convert")
                   ELSE Raised("TypeError", "bind")
        /\ PositionalOnlyWhereFree

\* A positional argument on a defaulted parameter, refused by the binding
\* while the environment holds a variable.
C10_Witness ==
    /\ Called
    /\ \E p \in ByPosition : HasDefault(p)
    /\ Len(last.environ) > 0
    /\ last.outcome = Raised("TypeError", "bind")
====
